---- MODULE Spec2Model ----
(***************************************************************************)
(* Model of the IndoMMLU evaluation drivers:                               *)
(*   src/indommlu_eval.py            (direct variant)                      *)
(*   src/indommlu_eval_reasoning.py  (reasoning variant)                   *)
(* Text is modelled as a sequence of one-character strings.                *)
(***************************************************************************)
EXTENDS Integers, Sequences, FiniteSets, TLC

\* ------------------------------------------------------------------ bounds
MaxData == 2          \* records in the dataset file
MaxTime == 1          \* last clock reading, in whole seconds
MaxLen == 3           \* characters of a final answer text (extractor run)

\* ------------------------------------------------------------------ values
None == <<"None">>    \* Python's None (no text is this: a text holds single characters)
NoError == "none"     \* main() has raised nothing

Fields == {"id", "subject", "level", "soal", "jawaban", "kunci", "sumber",
           "is_for_fewshot"}

\* the two programs
Variants == {"direct", "reasoning"}

\* character classes of Python's re module: \w is a letter, a digit or "_"
OptionLetters == {"A", "B", "C", "D", "E"}
Letters == OptionLetters \cup {"x"}
Digits == {"1"}
IsWord(c) == c \in Letters \cup Digits \cup {"_"}
IsSpace(c) == c = " "

\* A full, well-formed dataset record with the given id, level and flag.
Record(id, level, fewshot) ==
  [id |-> id, subject |-> "Biologi", level |-> level, soal |-> "soal",
   jawaban |-> "A. x B. y", kunci |-> "A", sumber |-> "sumber",
   is_for_fewshot |-> fewshot]

\* The record r without field f (a JSON object that lacks the key).
Without(r, f) == [k \in (DOMAIN r) \ {f} |-> r[k]]

\* The fields a line of the dataset file may lack: the two the filter reads, one
\* the prompt reads, one read after the completion call, one read by update().
MissingFields == {"level", "is_for_fewshot", "subject", "kunci", "sumber"}

\* The kinds of line the dataset file may hold: <<kind, missing field>>.
Kinds == {<<"ok", "">>, <<"fewshot", "">>, <<"sma", "">>,
          <<"sma_no", "is_for_fewshot">>} \cup {<<"no", f>> : f \in MissingFields}

RecordOf(id, kind) ==
  CASE kind[1] = "ok" -> Record(id, "Seleksi PTN", "0")
    [] kind[1] = "fewshot" -> Record(id, "Seleksi PTN", "1")
    [] kind[1] = "sma" -> Record(id, "SMA", "0")
    [] kind[1] = "sma_no" -> Without(Record(id, "SMA", "0"), kind[2])
    [] kind[1] = "no" -> Without(Record(id, "Seleksi PTN", "0"), kind[2])

\* Every dataset file of at most MaxData lines; the id of a line is its number.
Datasets ==
  UNION {{[k \in 1..n |-> RecordOf(k, ks[k])] : ks \in [1..n -> Kinds]} : n \in 0..MaxData}

\* Model identifiers, and the model lists a driver may be configured with.
ModelA == <<"a", "/", "b">>
ModelB == <<"a", "_", "b">>
ModelC == <<"a", ":", "b">>
ModelLists == {<<ModelA>>, <<ModelA, ModelB>>, <<ModelC, ModelB>>}

\* What a completion may return: <<message.content, message.reasoning_content>>.
\* The direct driver does not read reasoning_content.
Completions(v) ==
  {<<None, None>>, <<<<"A">>, None>>, <<<<"x", " ", "B", " ">>, None>>} \cup
  (IF v = "reasoning" THEN {<<<<"A">>, <<"t", "t">>>>} ELSE {})

VARIABLES
  variant,                \* which driver runs
  models,                 \* the configured model list
  env_key,                \* OPENROUTER_API_KEY: "set" or "unset"
  disk,                   \* the dataset file: [exists, lines]
  pc,                     \* position of main()
  error,                  \* the exception that ended main(), or None
  opened,                 \* open('indoMMLU.jsonl') has been attempted
  data,                   \* main's data
  filtered_data,          \* main's filtered_data
  mi,                     \* index of the current model in models
  i,                      \* 1-based index of the current item (Python's i + 1)
  results,                \* the current run's results
  correct_count,          \* the current run's correct_count
  total_reasoning_tokens, \* the current run's total_reasoning_tokens
  outstanding,            \* completion calls in flight: {<<model index, item index>>}
  calls,                  \* completion calls invoked so far: <<model index, item index>>
  diagnostics,            \* "Error evaluating question" lines: <<model index, ordinal>>
  started,                \* model indexes whose run has begun, in order
  files,                  \* result files on disk: filename -> lines
  all_model_results,      \* main's all_model_results
  now,                    \* the clock, in whole seconds
  xcontent,               \* extractor run: message.content
  xpredicted,             \* extractor run: the stripped answer text
  xletter,                \* extractor run: predicted_letter
  xpc                     \* extractor run: position

vars == <<variant, models, env_key, disk, pc, error, opened, data, filtered_data,
          mi, i, results, correct_count, total_reasoning_tokens, outstanding,
          calls, diagnostics, started, files, all_model_results, now,
          xcontent, xpredicted, xletter, xpc>>

mainVars == <<variant, models, env_key, disk, pc, error, opened, data, filtered_data,
              mi, i, results, correct_count, total_reasoning_tokens, outstanding,
              calls, diagnostics, started, files, all_model_results, now>>

xVars == <<xcontent, xpredicted, xletter, xpc>>

\* ------------------------------------------------------------ pure helpers
RECURSIVE GCD(_, _)
GCD(a, b) == IF b = 0 THEN a ELSE GCD(b, a % b)

\* Python's n / d for d > 0, as the fraction in lowest terms.
Div(n, d) == <<n \div GCD(n, d), d \div GCD(n, d)>>

\* Python's literal 0, which compares equal to 0.0
Zero == <<0, 1>>

\* sum(r['reasoning_length'] for r in rs)
RECURSIVE SumReasoningLength(_)
SumReasoningLength(rs) ==
  IF rs = <<>> THEN 0 ELSE Head(rs).reasoning_length + SumReasoningLength(Tail(rs))

\* sum(r['is_correct'] for r in rs)
RECURSIVE SumCorrect(_)
SumCorrect(rs) ==
  IF rs = <<>> THEN 0
  ELSE (IF Head(rs).is_correct THEN 1 ELSE 0) + SumCorrect(Tail(rs))

\* sum(1 for r in rs if r['reasoning_length'] > 0)
RECURSIVE SumReasoningUsed(_)
SumReasoningUsed(rs) ==
  IF rs = <<>> THEN 0
  ELSE (IF Head(rs).reasoning_length > 0 THEN 1 ELSE 0) + SumReasoningUsed(Tail(rs))

\* str.strip()
RECURSIVE LStrip(_)
LStrip(s) == IF s # <<>> /\ IsSpace(Head(s)) THEN LStrip(Tail(s)) ELSE s

RECURSIVE RStrip(_)
RStrip(s) ==
  IF s # <<>> /\ IsSpace(s[Len(s)]) THEN RStrip(SubSeq(s, 1, Len(s) - 1)) ELSE s

Strip(s) == RStrip(LStrip(s))

\* \b at the gap before position p (1..Len(s)+1) of s
Boundary(s, p) ==
  LET before == p > 1 /\ IsWord(s[p - 1])
      after == p <= Len(s) /\ IsWord(s[p])
  IN before # after

\* re.search(r'\b([ABCDE])\b', s), scanning from position p: the position of the
\* leftmost match, or 0 when there is none
RECURSIVE SearchFrom(_, _)
SearchFrom(s, p) ==
  IF p > Len(s) THEN 0
  ELSE IF Boundary(s, p) /\ s[p] \in OptionLetters /\ Boundary(s, p + 1) THEN p
  ELSE SearchFrom(s, p + 1)

\* a search for [ABCDE] without the two \b
RECURSIVE SearchNoBoundaryFrom(_, _)
SearchNoBoundaryFrom(s, p) ==
  IF p > Len(s) THEN 0
  ELSE IF s[p] \in OptionLetters THEN p
  ELSE SearchNoBoundaryFrom(s, p + 1)

LetterMatchNoBoundary(s) == SearchNoBoundaryFrom(s, 1)

LetterMatch(s) == SearchFrom(s, 1)

\* predicted_letter of evaluate_mcq_reasoning, from the stripped answer text
PredictedLetter(predicted) ==
  IF LetterMatch(predicted) # 0 THEN <<predicted[LetterMatch(predicted)]>>
  ELSE IF predicted # <<>> /\ predicted[1] \in OptionLetters THEN <<predicted[1]>>
  ELSE predicted

\* len(reasoning_content) if reasoning_content else 0
ReasoningLength(reasoning_content) ==
  IF reasoning_content # None /\ reasoning_content # <<>>
  THEN Len(reasoning_content) ELSE 0

\* The f-string prompt reads item['subject'], ['level'], ['soal'], ['jawaban'].
PromptRaises(item) ==
  \E f \in {"subject", "level", "soal", "jawaban"} : f \notin DOMAIN item

\* The rest of evaluate_mcq / evaluate_mcq_reasoning and result.update(...) raise:
\* None.strip(), item['kunci'], item['id'], item['sumber'].
AfterCallRaises(item, content) ==
  \/ content = None
  \/ \E f \in {"kunci", "id", "sumber"} : f \notin DOMAIN item

\* kunci was loaded as a string; predictions are character sequences
Text(str) == <<str>>

\* The result dict of evaluate_mcq after result.update(...)
DirectResult(item, model, content) ==
  LET predicted == Strip(content) IN
  [id |-> item["id"], predicted |-> predicted, correct |-> Text(item["kunci"]),
   is_correct |-> (predicted = Text(item["kunci"])),
   model |-> model, subject |-> item["subject"], soal |-> item["soal"],
   jawaban |-> item["jawaban"], sumber |-> item["sumber"]]

\* The result dict of evaluate_mcq_reasoning after result.update(...)
ReasoningResult(item, model, content, reasoning_content) ==
  LET predicted == Strip(content)
      predicted_letter == PredictedLetter(predicted) IN
  [id |-> item["id"], predicted |-> predicted_letter,
   correct |-> Text(item["kunci"]),
   is_correct |-> (predicted_letter = Text(item["kunci"])),
   reasoning_content |-> reasoning_content,
   reasoning_length |-> ReasoningLength(reasoning_content),
   full_response |-> predicted,
   model |-> model, subject |-> item["subject"], soal |-> item["soal"],
   jawaban |-> item["jawaban"], sumber |-> item["sumber"]]

\* The condition of the filtering comprehension; `and` does not read
\* is_for_fewshot when the level differs.
FilterRaises(item) ==
  \/ "level" \notin DOMAIN item
  \/ item["level"] = "Seleksi PTN" /\ "is_for_fewshot" \notin DOMAIN item

\* the condition with `or` in place of `and`
RetainedEither(item) ==
  item["level"] = "Seleksi PTN" \/ item["is_for_fewshot"] = "0"

Retained(item) ==
  item["level"] = "Seleksi PTN" /\ item["is_for_fewshot"] = "0"

\* model.replace('/', '_') and, in the reasoning driver, .replace(':', '_')
ModelName(v, model) ==
  [k \in 1..Len(model) |->
     IF model[k] = "/" \/ (v = "reasoning" /\ model[k] = ":") THEN "_"
     ELSE model[k]]

\* datetime.now().strftime("%Y%m%d_%H%M%S"): the clock's whole seconds, as text
Timestamp(t) == ToString(t)

Prefix(v) == IF v = "reasoning" THEN "eval_results_reasoning_" ELSE "eval_results_"

OutputFile(v, model, t) ==
  <<Prefix(v)>> \o ModelName(v, model) \o <<"_", Timestamp(t), ".jsonl">>

\* final_accuracy and the other statistics of one run
\* the accuracy over every retained item, skipped ones included
FinalAccuracyOverAll(rs) ==
  IF rs # <<>> THEN Div(SumCorrect(rs), Len(filtered_data)) ELSE Zero

FinalAccuracy(rs) == IF rs # <<>> THEN Div(SumCorrect(rs), Len(rs)) ELSE Zero
AvgReasoningLength(rs) ==
  IF rs # <<>> THEN Div(SumReasoningLength(rs), Len(rs)) ELSE Zero
\* the usage rate counting every result, with or without reasoning
ReasoningUsageRateAll(rs) == IF rs # <<>> THEN Div(Len(rs), Len(rs)) ELSE Zero

ReasoningUsageRate(rs) ==
  IF rs # <<>> THEN Div(SumReasoningUsed(rs), Len(rs)) ELSE Zero

Summary(v, rs, output_file) ==
  IF v = "reasoning"
  THEN [accuracy |-> FinalAccuracy(rs),
        avg_reasoning_length |-> AvgReasoningLength(rs),
        reasoning_usage_rate |-> ReasoningUsageRate(rs),
        results |-> rs, output_file |-> output_file]
  ELSE [accuracy |-> FinalAccuracy(rs), results |-> rs, output_file |-> output_file]

\* d[k] = v on a Python dict or a directory of files
Put(d, k, v) == [x \in (DOMAIN d) \cup {k} |-> IF x = k THEN v ELSE d[x]]

\* the empty dict / the empty directory
Empty == [x \in {} |-> x]

\* ------------------------------------------------------------------ main()
Init ==
  /\ variant \in Variants
  /\ models \in ModelLists
  /\ env_key \in {"set", "unset"}
  /\ disk \in {[exists |-> FALSE, lines |-> <<>>]} \cup
              {[exists |-> TRUE, lines |-> d] : d \in Datasets}
  /\ pc = "start"
  /\ error = NoError
  /\ opened = FALSE
  /\ data = <<>>
  /\ filtered_data = <<>>
  /\ mi = 1
  /\ i = 1
  /\ results = <<>>
  /\ correct_count = 0
  /\ total_reasoning_tokens = 0
  /\ outstanding = {}
  /\ calls = <<>>
  /\ diagnostics = <<>>
  /\ started = <<>>
  /\ files = Empty
  /\ all_model_results = Empty
  /\ now = 0
  /\ xcontent = <<>>
  /\ xpredicted = <<>>
  /\ xletter = <<>>
  /\ xpc = "off"

\* the credential check without its return: the messages are printed, main goes on
CheckCredentialNoReturn ==
  /\ pc = "start"
  /\ pc' = "load"
  /\ UNCHANGED <<variant, models, env_key, disk, error, opened, data, filtered_data,
                 mi, i, results, correct_count, total_reasoning_tokens, outstanding,
                 calls, diagnostics, started, files, all_model_results, now, xVars>>

\* OpenAI(...) followed by the credential check. With no key the client
\* constructor of the openai package may itself raise; otherwise main returns.
CheckCredential ==
  /\ pc = "start"
  /\ IF env_key = "unset"
     THEN \E raised \in BOOLEAN :
            /\ pc' = IF raised THEN "fatal" ELSE "aborted"
            /\ error' = IF raised THEN "OpenAIError" ELSE NoError
     ELSE pc' = "load" /\ error' = error
  /\ UNCHANGED <<variant, models, env_key, disk, opened, data, filtered_data, mi, i,
                 results, correct_count, total_reasoning_tokens, outstanding, calls,
                 diagnostics, started, files, all_model_results, now, xVars>>

\* data = load_jsonl('indoMMLU.jsonl'), FileNotFoundError makes main return
LoadData ==
  /\ pc = "load"
  /\ opened' = TRUE
  /\ IF disk.exists
     THEN data' = disk.lines /\ pc' = "filter"
     ELSE data' = data /\ pc' = "aborted"
  /\ UNCHANGED <<variant, models, env_key, disk, error, filtered_data, mi, i,
                 results, correct_count, total_reasoning_tokens, outstanding, calls,
                 diagnostics, started, files, all_model_results, now, xVars>>

\* filtered_data = [item for item in data if ...]; a KeyError leaves main
FilterData ==
  /\ pc = "filter"
  /\ IF \E k \in 1..Len(data) : FilterRaises(data[k])
     THEN /\ pc' = "fatal"
          /\ error' = "KeyError"
          /\ filtered_data' = filtered_data
     ELSE /\ pc' = "model"
          /\ error' = error
          /\ filtered_data' = SelectSeq(data, Retained)
  /\ UNCHANGED <<variant, models, env_key, disk, opened, data, mi, i,
                 results, correct_count, total_reasoning_tokens, outstanding, calls,
                 diagnostics, started, files, all_model_results, now, xVars>>

\* a model run that begins without results = [] and the zeroed counters
StartModelKeepsResults ==
  /\ pc = "model"
  /\ mi <= Len(models)
  /\ i' = 1
  /\ started' = Append(started, mi)
  /\ pc' = "loop"
  /\ UNCHANGED <<variant, models, env_key, disk, error, opened, data, filtered_data,
                 mi, results, correct_count, total_reasoning_tokens, outstanding,
                 calls, diagnostics, files, all_model_results, now, xVars>>

\* for model in models: results = []; correct_count = 0; (total_reasoning_tokens = 0)
StartModel ==
  /\ pc = "model"
  /\ mi <= Len(models)
  /\ results' = <<>>
  /\ correct_count' = 0
  /\ total_reasoning_tokens' = 0
  /\ i' = 1
  /\ started' = Append(started, mi)
  /\ pc' = "loop"
  /\ UNCHANGED <<variant, models, env_key, disk, error, opened, data, filtered_data,
                 mi, outstanding, calls, diagnostics, files, all_model_results, now,
                 xVars>>

\* the model loop is exhausted: the final comparison is printed and main returns
Finish ==
  /\ pc = "model"
  /\ mi > Len(models)
  /\ pc' = "done"
  /\ UNCHANGED <<variant, models, env_key, disk, error, opened, data, filtered_data,
                 mi, i, results, correct_count, total_reasoning_tokens, outstanding,
                 calls, diagnostics, started, files, all_model_results, now, xVars>>

\* except Exception as e: print(f"Error evaluating question {i+1}: {e}"); continue
Skipped == Append(diagnostics, <<mi, i>>)

\* the item loop takes the next item; building the prompt raises KeyError
PromptError ==
  /\ pc = "loop"
  /\ i <= Len(filtered_data)
  /\ PromptRaises(filtered_data[i])
  /\ diagnostics' = Skipped
  /\ i' = i + 1
  /\ UNCHANGED <<variant, models, env_key, disk, pc, error, opened, data,
                 filtered_data, mi, results, correct_count, total_reasoning_tokens,
                 outstanding, calls, started, files, all_model_results, now, xVars>>

\* the item loop takes the next item; client.chat.completions.create(...) is called
InvokeCompletion ==
  /\ pc = "loop"
  /\ i <= Len(filtered_data)
  /\ ~PromptRaises(filtered_data[i])
  /\ calls' = Append(calls, <<mi, i>>)
  /\ outstanding' = outstanding \cup {<<mi, i>>}
  /\ pc' = "calling"
  /\ UNCHANGED <<variant, models, env_key, disk, error, opened, data, filtered_data,
                 mi, i, results, correct_count, total_reasoning_tokens, diagnostics,
                 started, files, all_model_results, now, xVars>>

\* the completion call raises with no try/except around it: main ends
CompletionRaisesUncaught ==
  /\ pc = "calling"
  /\ outstanding' = outstanding \ {<<mi, i>>}
  /\ pc' = "fatal"
  /\ error' = "ApiError"
  /\ UNCHANGED <<variant, models, env_key, disk, opened, data, filtered_data, mi, i,
                 results, correct_count, total_reasoning_tokens, calls, diagnostics,
                 started, files, all_model_results, now, xVars>>

\* the completion call raises (transport, authentication, rate limit, ...)
CompletionRaises ==
  /\ pc = "calling"
  /\ outstanding' = outstanding \ {<<mi, i>>}
  /\ diagnostics' = Skipped
  /\ i' = i + 1
  /\ pc' = "loop"
  /\ UNCHANGED <<variant, models, env_key, disk, error, opened, data, filtered_data,
                 mi, results, correct_count, total_reasoning_tokens, calls, started,
                 files, all_model_results, now, xVars>>

\* the result built from a returned completion
ResultOf(item, model, content, reasoning_content) ==
  IF variant = "reasoning"
  THEN ReasoningResult(item, model, content, reasoning_content)
  ELSE DirectResult(item, model, content)

\* the completion call returns; the rest of the try block runs
CompletionReturns ==
  /\ pc = "calling"
  /\ \E completion \in Completions(variant) :
       LET item == filtered_data[i]
           content == completion[1]
           reasoning_content == completion[2] IN
       IF AfterCallRaises(item, content)
       THEN /\ diagnostics' = Skipped
            /\ UNCHANGED <<results, correct_count, total_reasoning_tokens>>
       ELSE LET result == ResultOf(item, models[mi], content, reasoning_content) IN
            /\ results' = Append(results, result)
            /\ correct_count' = correct_count + (IF result.is_correct THEN 1 ELSE 0)
            /\ total_reasoning_tokens' =
                 IF variant = "reasoning"
                 THEN total_reasoning_tokens + result.reasoning_length
                 ELSE total_reasoning_tokens
            /\ diagnostics' = diagnostics
  /\ outstanding' = outstanding \ {<<mi, i>>}
  /\ i' = i + 1
  /\ pc' = "loop"
  /\ UNCHANGED <<variant, models, env_key, disk, error, opened, data, filtered_data,
                 mi, calls, started, files, all_model_results, now, xVars>>

\* the item loop is exhausted
LoopExit ==
  /\ pc = "loop"
  /\ i > Len(filtered_data)
  /\ pc' = "finalize"
  /\ UNCHANGED <<variant, models, env_key, disk, error, opened, data, filtered_data,
                 mi, i, results, correct_count, total_reasoning_tokens, outstanding,
                 calls, diagnostics, started, files, all_model_results, now, xVars>>

\* the result log is written (mode 'w' replaces a file of that name) and the
\* run's statistics are stored; the clock may show the second of an earlier
\* reading or a later one
SaveResults ==
  /\ pc = "finalize"
  /\ \E t \in now..MaxTime :
       LET output_file == OutputFile(variant, models[mi], t) IN
       /\ now' = t
       /\ files' = Put(files, output_file, results)
       /\ all_model_results' =
            Put(all_model_results, models[mi], Summary(variant, results, output_file))
  /\ mi' = mi + 1
  /\ pc' = "model"
  /\ UNCHANGED <<variant, models, env_key, disk, error, opened, data, filtered_data,
                 i, results, correct_count, total_reasoning_tokens, outstanding,
                 calls, diagnostics, started, xVars>>

\* open(output_file, 'w') raises OSError: nothing catches it, main ends
SaveFails ==
  /\ pc = "finalize"
  /\ pc' = "fatal"
  /\ error' = "OSError"
  /\ UNCHANGED <<variant, models, env_key, disk, opened, data, filtered_data, mi,
                 i, results, correct_count, total_reasoning_tokens, outstanding,
                 calls, diagnostics, started, files, all_model_results, now, xVars>>

Next ==
  \/ CheckCredential
  \/ LoadData
  \/ FilterData
  \/ StartModel
  \/ Finish
  \/ PromptError
  \/ InvokeCompletion
  \/ CompletionRaises
  \/ CompletionReturns
  \/ LoopExit
  \/ SaveResults
  \/ SaveFails

Spec == Init /\ [][Next]_vars

\* ------------------------------------------- the reasoning extractor alone
\* the characters a final answer text is drawn from
Chars == {"A", "B", "x", "1", "_", " ", "."}

Texts == UNION {[1..n -> Chars] : n \in 0..MaxLen}

InitExtract ==
  /\ variant = "reasoning"
  /\ models = <<ModelA>>
  /\ env_key = "set"
  /\ disk = [exists |-> FALSE, lines |-> <<>>]
  /\ pc = "off"
  /\ error = NoError
  /\ opened = FALSE
  /\ data = <<>>
  /\ filtered_data = <<>>
  /\ mi = 1
  /\ i = 1
  /\ results = <<>>
  /\ correct_count = 0
  /\ total_reasoning_tokens = 0
  /\ outstanding = {}
  /\ calls = <<>>
  /\ diagnostics = <<>>
  /\ started = <<>>
  /\ files = Empty
  /\ all_model_results = Empty
  /\ now = 0
  /\ xcontent \in Texts
  /\ xpredicted = <<>>
  /\ xletter = <<>>
  /\ xpc = "content"

\* predicted = response.choices[0].message.content.strip()
StripContent ==
  /\ xpc = "content"
  /\ xpredicted' = Strip(xcontent)
  /\ xpc' = "stripped"
  /\ UNCHANGED <<mainVars, xcontent, xletter>>

\* the letter_match / fallback block
ExtractLetter ==
  /\ xpc = "stripped"
  /\ xletter' = PredictedLetter(xpredicted)
  /\ xpc' = "done"
  /\ UNCHANGED <<mainVars, xcontent, xpredicted>>

NextExtract ==
  \/ StripContent
  \/ ExtractLetter

SpecExtract == InitExtract /\ [][NextExtract]_vars

\* ------------------------------------------------------------------ claims
IsLetter(c) == c \in Letters

Min(S) == CHOOSE m \in S : \A n \in S : m <= n

\* t is s without its leading and trailing blanks
IsTrimOf(t, s) ==
  /\ t = <<>> \/ (~IsSpace(t[1]) /\ ~IsSpace(t[Len(t)]))
  /\ \E a \in 0..Len(s) :
       /\ a + Len(t) <= Len(s)
       /\ \A k \in 1..Len(s) :
            IF k > a /\ k <= a + Len(t) THEN s[k] = t[k - a] ELSE IsSpace(s[k])

\* positions of the option letters of s whose neighbours are outside Inner
Standalone(s, Inner(_)) ==
  {p \in 1..Len(s) : /\ s[p] \in OptionLetters
                     /\ (p = 1 \/ ~Inner(s[p - 1]))
                     /\ (p = Len(s) \/ ~Inner(s[p + 1]))}

\* the three tiers, for a given reading of "stands alone"
Tiers(s, Inner(_)) ==
  IF Standalone(s, Inner) # {} THEN <<s[Min(Standalone(s, Inner))]>>
  ELSE IF s # <<>> /\ s[1] \in OptionLetters THEN <<s[1]>>
  ELSE s

\* C2 as stated: the extractor returns the first option letter that stands alone
\* between non-letter characters (or the ends), else the first character of the
\* trimmed text when it is an option letter, else the trimmed text; the empty
\* text gives the empty string.
C2_Original ==
  xpc = "done" =>
    /\ IsTrimOf(xpredicted, xcontent)
    /\ xletter = Tiers(xpredicted, IsLetter)
    /\ (xcontent = <<>> => xletter = <<>>)

\* C2 amended: as C2, with "stands alone" meaning that the neighbours are not
\* word characters (a letter, a digit or an underscore), as \b reads it.
C2_Amended ==
  xpc = "done" =>
    /\ IsTrimOf(xpredicted, xcontent)
    /\ xletter = Tiers(xpredicted, IsWord)
    /\ (xcontent = <<>> => xletter = <<>>)

\* a text whose option letter touches a digit: no tier-1 match, verbatim result
C2_Witness ==
  /\ xpc = "done"
  /\ xcontent = <<" ", "1", "A">>
  /\ xletter = <<"1", "A">>

\* ordinals of the items of model run k that printed a diagnostic
Failed(k) == {diagnostics[n][2] : n \in {n \in 1..Len(diagnostics) : diagnostics[n][1] = k}}

\* indexes into filtered_data of the items of run k that did not fail, ascending
Survivors(k) ==
  LET Ok(j) == j \notin Failed(k)
  IN SelectSeq([j \in 1..Len(filtered_data) |-> j], Ok)

\* rs holds one result for each surviving item of run k, in order
OnePerSurvivor(rs, k) ==
  /\ Len(rs) = Len(Survivors(k))
  /\ \A n \in 1..Len(rs) : rs[n].id = filtered_data[Survivors(k)[n]]["id"]

\* the model run that SaveResults has just finalized
JustSaved == pc = "model" /\ mi > 1

\* C1: whatever items fail, no item error ends the run; when the item loop is
\* over every item has been taken, the results hold exactly one EvalResult for
\* each item that did not fail and none for one that failed, and the written
\* log has as many lines as there are items that did not fail.
C1_PartialFailure ==
  /\ pc = "fatal" => (error = "OSError" \/ started = <<>>)
  /\ pc = "finalize" =>
       /\ i = Len(filtered_data) + 1
       /\ OnePerSurvivor(results, mi)
  /\ JustSaved =>
       LET output_file == all_model_results[models[mi - 1]].output_file IN
       /\ output_file \in DOMAIN files
       /\ Len(files[output_file]) = Len(filtered_data) - Cardinality(Failed(mi - 1))
       /\ OnePerSurvivor(files[output_file], mi - 1)

\* two retained items, the first fails, the log of the run has one line
C1_Witness ==
  /\ JustSaved /\ mi = 2
  /\ Len(filtered_data) = 2
  /\ Failed(1) = {1}
  /\ Len(files[all_model_results[models[1]].output_file]) = 1

\* indexes of the records of data that pass both conditions
Passing == {k \in 1..Len(data) : data[k]["level"] = "Seleksi PTN"
                                  /\ data[k]["is_for_fewshot"] = "0"}

WellFormed(r) == DOMAIN r = Fields

\* C3: for a loaded sequence of well-formed records, filtered_data holds exactly
\* the records with level "Seleksi PTN" and is_for_fewshot "0", each as often as
\* in the input and in the input's order, and data is still what was loaded.
C3_Filter ==
  (pc \in {"model", "loop", "calling", "finalize", "done"}
     /\ \A k \in 1..Len(data) : WellFormed(data[k])) =>
    /\ data = disk.lines
    /\ Len(filtered_data) = Cardinality(Passing)
    /\ \A n \in 1..Len(filtered_data) :
         \E k \in Passing :
           /\ Cardinality({j \in Passing : j <= k}) = n
           /\ filtered_data[n] = data[k]

\* a well-formed file whose first record is dropped and whose second is kept
C3_Witness ==
  /\ pc = "model"
  /\ Len(data) = 2 /\ WellFormed(data[1]) /\ WellFormed(data[2])
  /\ data[1]["is_for_fewshot"] = "1"
  /\ filtered_data = <<data[2]>>

\* C4: for every finalized run the recorded accuracy is the number of correct
\* EvalResults over the number of EvalResults, skipped items being in neither,
\* and it is exactly 0 when the run has no EvalResult.
C4_Accuracy ==
  \A k \in 1..(mi - 1) :
    models[k] \in DOMAIN all_model_results =>
      LET summary == all_model_results[models[k]]
          rs == summary.results
          correct == Cardinality({n \in 1..Len(rs) : rs[n].is_correct})
          evaluated == Len(filtered_data) - Cardinality(Failed(k))
      IN /\ Len(rs) = evaluated
         /\ evaluated = 0 => summary.accuracy = <<0, 1>>
         /\ evaluated > 0 =>
              /\ summary.accuracy[2] > 0
              /\ summary.accuracy[1] * evaluated = correct * summary.accuracy[2]

\* a run of two items: one skipped, one answered correctly, accuracy 1
C4_Witness ==
  /\ JustSaved /\ mi = 2
  /\ Len(filtered_data) = 2
  /\ Cardinality(Failed(1)) = 1
  /\ all_model_results[models[1]].accuracy = <<1, 1>>

\* a run in which every item failed, accuracy 0
C4_WitnessEmpty ==
  /\ JustSaved /\ mi = 2
  /\ Len(filtered_data) = 2
  /\ Cardinality(Failed(1)) = 2
  /\ all_model_results[models[1]].accuracy = <<0, 1>>

\* C5 as stated: a record that lacks a required field ends the run at load or
\* filter time; it never reaches the item loop and no completion is called.
C5_MalformedIsFatal ==
  (\E k \in 1..Len(data) : ~WellFormed(data[k])) =>
    /\ pc \notin {"model", "loop", "calling", "finalize", "done"}
    /\ calls = <<>>

\* C6: without the credential the dataset file is never opened; without the
\* credential or without the dataset file the run ends with no completion call
\* made and no result file written.
C6_Preflight ==
  /\ env_key = "unset" => (~opened /\ pc \in {"start", "aborted", "fatal"})
  /\ (env_key = "unset" \/ ~disk.exists) =>
       /\ pc \in {"start", "load", "aborted", "fatal"}
       /\ calls = <<>> /\ outstanding = {}
       /\ files = Empty /\ all_model_results = Empty

\* the run has ended on the missing credential, the dataset file exists
C6_Witness ==
  /\ pc = "aborted" /\ env_key = "unset"
  /\ disk.exists /\ ~opened

\* C7 as stated: no two distinct model runs produce the same output filename,
\* so every finalized run's log is still on disk as that run wrote it.
C7_NoCollision ==
  \A k1, k2 \in 1..(mi - 1) :
    (k1 # k2 /\ models[k1] \in DOMAIN all_model_results
             /\ models[k2] \in DOMAIN all_model_results) =>
      /\ all_model_results[models[k1]].output_file
           # all_model_results[models[k2]].output_file
      /\ files[all_model_results[models[k1]].output_file]
           = all_model_results[models[k1]].results

\* the calls of run k, as item indexes in call order
CallsOf(k) ==
  LET Mine(c) == c[1] = k
      mine == SelectSeq(calls, Mine)
  IN [n \in 1..Len(mine) |-> mine[n][2]]

\* C8 as stated: when a run's item loop is over, the completion has been called
\* exactly once for each retained item, in order; at most one call is ever
\* outstanding; and the result ids follow the filtered dataset's order.
C8_OncePerItem ==
  /\ Cardinality(outstanding) <= 1
  /\ pc = "finalize" =>
       /\ CallsOf(mi) = [j \in 1..Len(filtered_data) |-> j]
       /\ \A n, m \in 1..Len(results) :
            n < m => \E a, b \in 1..Len(filtered_data) :
                       /\ a < b
                       /\ "id" \in DOMAIN filtered_data[a]
                       /\ "id" \in DOMAIN filtered_data[b]
                       /\ filtered_data[a]["id"] = results[n].id
                       /\ filtered_data[b]["id"] = results[m].id

\* C9: in the reasoning driver every EvalResult's reasoning_length is the
\* character count of the side-channel text, 0 when it is absent, and the
\* recorded reasoning_usage_rate is the number of EvalResults with a nonzero
\* reasoning_length over the number of EvalResults, 0 when there are none.
C9_ReasoningAccounting ==
  variant = "reasoning" =>
    /\ \A n \in 1..Len(results) :
         results[n].reasoning_length =
           (IF results[n].reasoning_content = None THEN 0
            ELSE Len(results[n].reasoning_content))
    /\ \A k \in 1..(mi - 1) :
         models[k] \in DOMAIN all_model_results =>
           LET summary == all_model_results[models[k]]
               rs == summary.results
               used == Cardinality({n \in 1..Len(rs) :
                                     /\ rs[n].reasoning_content # None
                                     /\ Len(rs[n].reasoning_content) > 0})
               rate == summary.reasoning_usage_rate
           IN /\ rs = <<>> => rate = <<0, 1>>
              /\ rs # <<>> => (rate[2] > 0 /\ rate[1] * Len(rs) = used * rate[2])

\* two results, one with a side-channel text and one without: rate 1/2
C9_Witness ==
  /\ variant = "reasoning" /\ JustSaved /\ mi = 2
  /\ Len(results) = 2
  /\ results[1].reasoning_content = None /\ results[1].reasoning_length = 0
  /\ results[2].reasoning_length = 2
  /\ all_model_results[models[1]].reasoning_usage_rate = <<1, 2>>

\* main() has returned or raised
Ended == pc \in {"done", "aborted", "fatal"}

\* the model runs begin in list order, each from an empty result sequence and
\* zeroed counters
RunsInOrderFromScratch ==
  /\ started = [k \in 1..Len(started) |-> k]
  /\ Len(started) <= Len(models)
  /\ (pc = "loop" /\ i = 1) =>
       (results = <<>> /\ correct_count = 0 /\ total_reasoning_tokens = 0)

C10_WitnessItems ==
  /\ pc = "done" /\ Len(models) = 2
  /\ Len(filtered_data) = 2 /\ Cardinality(Failed(1)) = 2
  /\ Len(all_model_results[models[2]].results) = 2

====
